---- MODULE Spec2Model ----
(***************************************************************************)
(* Model of src/app.py (General Relief dashboard): the loader load_all,   *)
(* which reads the GR 237 CSV files one after the other, normalises each  *)
(* into long records (Date, County_Name, Metric, Value) and combines      *)
(* them into one table and one log.                                       *)
(*                                                                         *)
(* CSV fields are strings, and the string functions of the source (strip, *)
(* lower, the regular expressions, the date formats) are computed on      *)
(* their characters.  A DataFrame is a record of column labels and rows;  *)
(* a cell is NaN, a number or a string, as pandas' read_csv types it.     *)
(* Dates are month-resolution integers yyyymm (201507 is 2015-07-01).     *)
(***************************************************************************)
EXTENDS Integers, Sequences, FiniteSets, TLC

(***************************************************************************)
(* Strings                                                                 *)
(***************************************************************************)
Digits == "0123456789"
UpperLetters == "ABCDEFGHIJKLMNOPQRSTUVWXYZ"
LowerLetters == "abcdefghijklmnopqrstuvwxyz"

CharAt(s, i) == SubSeq(s, i, i)

\* position of the one-character string c in alphabet, 0 when absent
IndexIn(c, alphabet) ==
    IF \E i \in 1..Len(alphabet) : CharAt(alphabet, i) = c
    THEN CHOOSE i \in 1..Len(alphabet) : CharAt(alphabet, i) = c
    ELSE 0

IsDigit(c) == IndexIn(c, Digits) > 0
IsLetter(c) == IndexIn(c, UpperLetters) > 0 \/ IndexIn(c, LowerLetters) > 0
IsSpace(c) == c = " "

RECURSIVE LStrip(_)
LStrip(s) == IF Len(s) > 0 /\ IsSpace(CharAt(s, 1)) THEN LStrip(Tail(s)) ELSE s

RECURSIVE RStrip(_)
RStrip(s) ==
    IF Len(s) > 0 /\ IsSpace(CharAt(s, Len(s)))
    THEN RStrip(SubSeq(s, 1, Len(s) - 1))
    ELSE s

\* str.strip()
Strip(s) == RStrip(LStrip(s))

LowerChar(c) ==
    IF IndexIn(c, UpperLetters) > 0
    THEN CharAt(LowerLetters, IndexIn(c, UpperLetters))
    ELSE c

UpperChar(c) ==
    IF IndexIn(c, LowerLetters) > 0
    THEN CharAt(UpperLetters, IndexIn(c, LowerLetters))
    ELSE c

RECURSIVE Lower(_)
Lower(s) == IF Len(s) = 0 THEN "" ELSE LowerChar(CharAt(s, 1)) \o Lower(Tail(s))

RECURSIVE Upper(_)
Upper(s) == IF Len(s) = 0 THEN "" ELSE UpperChar(CharAt(s, 1)) \o Upper(Tail(s))

StartsWith(s, p) == Len(s) >= Len(p) /\ SubSeq(s, 1, Len(p)) = p
EndsWith(s, p) == Len(s) >= Len(p) /\ SubSeq(s, Len(s) - Len(p) + 1, Len(s)) = p

\* the Python test `sub in s`
Contains(s, sub) ==
    \E i \in 1..(Len(s) + 1) :
        i + Len(sub) - 1 <= Len(s) /\ SubSeq(s, i, i + Len(sub) - 1) = sub

AllDigits(s) == Len(s) > 0 /\ \A i \in 1..Len(s) : IsDigit(CharAt(s, i))

RECURSIVE ToInt(_)
ToInt(s) ==
    IF Len(s) = 0 THEN 0
    ELSE 10 * ToInt(SubSeq(s, 1, Len(s) - 1)) + (IndexIn(CharAt(s, Len(s)), Digits) - 1)

\* re.search(r"[A-Za-z]", x), the pattern county_has_letter
HasLetter(s) == \E i \in 1..Len(s) : IsLetter(CharAt(s, i))

\* " ".join(xs)
RECURSIVE Join(_)
Join(xs) ==
    IF Len(xs) = 0 THEN ""
    ELSE IF Len(xs) = 1 THEN xs[1]
    ELSE xs[1] \o " " \o Join(Tail(xs))

(***************************************************************************)
(* Sequences                                                               *)
(***************************************************************************)
Range(seq) == {seq[i] : i \in 1..Len(seq)}

RECURSIVE SelectIdx(_, _, _)
\* the elements of seq at the positions of keep, in order
SelectIdx(seq, keep, i) ==
    IF i > Len(seq) THEN <<>>
    ELSE (IF i \in keep THEN <<seq[i]>> ELSE <<>>) \o SelectIdx(seq, keep, i + 1)

RECURSIVE Flatten(_)
Flatten(seqs) == IF Len(seqs) = 0 THEN <<>> ELSE Head(seqs) \o Flatten(Tail(seqs))

Min(S) == CHOOSE x \in S : \A y \in S : x <= y

(***************************************************************************)
(* Cells                                                                   *)
(***************************************************************************)
\* a missing value: NaN of a float or object column, NaT of a date column
NaN == [k |-> "nan", n |-> 0, s |-> "", f |-> FALSE]
\* a number; f says that its column is float64, which str() prints with ".0"
Num(n, f) == [k |-> "num", n |-> n, s |-> "", f |-> f]
Str(s) == [k |-> "str", n |-> 0, s |-> s, f |-> FALSE]
\* a Timestamp, the first day of month n = yyyymm
Stamp(n) == [k |-> "date", n |-> n, s |-> "", f |-> FALSE]

IsNa(c) == c.k = "nan"
NotNa(c) == ~IsNa(c)

\* a CSV field that read_csv's number inference accepts (integers only here)
IsNumericField(s) ==
    \/ AllDigits(s)
    \/ Len(s) > 1 /\ CharAt(s, 1) = "-" /\ AllDigits(Tail(s))

FieldToInt(s) == IF CharAt(s, 1) = "-" THEN 0 - ToInt(Tail(s)) ELSE ToInt(s)

(***************************************************************************)
(* DataFrames                                                              *)
(*                                                                         *)
(* A DataFrame is [cols, rows]: the column labels, and the rows, each     *)
(* [rid, c] with c the cells in column order.  rid is the 0-based line of *)
(* the file the row was read from; pandas does not keep it, and no        *)
(* operation of the model reads it: it lets the properties name a         *)
(* record's source row.                                                    *)
(***************************************************************************)
EmptyDF == [cols |-> <<>>, rows |-> <<>>]

\* df.empty: no row or no column
IsEmpty(df) == Len(df.rows) = 0 \/ Len(df.cols) = 0

HasCol(df, name) == name \in Range(df.cols)
ColCount(df, name) == Cardinality({j \in 1..Len(df.cols) : df.cols[j] = name})
ColIdx(df, name) == Min({j \in 1..Len(df.cols) : df.cols[j] = name})
\* row[name]
Cell(df, row, name) == row.c[ColIdx(df, name)]

\* df[mask]: the rows at the positions of keep
FilterRows(df, keep) == [df EXCEPT !.rows = SelectIdx(df.rows, keep, 1)]

\* df.drop(columns=...): the columns at the positions of keep stay
KeepCols(df, keep) ==
    [cols |-> SelectIdx(df.cols, keep, 1),
     rows |-> [i \in 1..Len(df.rows) |->
                 [df.rows[i] EXCEPT !.c = SelectIdx(df.rows[i].c, keep, 1)]]]

\* df[name] = values (a new column is appended, an existing one replaced)
SetCol(df, name, values) ==
    IF HasCol(df, name)
    THEN [df EXCEPT !.rows = [i \in 1..Len(df.rows) |->
             [df.rows[i] EXCEPT !.c[ColIdx(df, name)] = values[i]]]]
    ELSE [cols |-> Append(df.cols, name),
          rows |-> [i \in 1..Len(df.rows) |->
                      [df.rows[i] EXCEPT !.c = Append(df.rows[i].c, values[i])]]]

(***************************************************************************)
(* pandas.read_csv(path, header=h, engine="python")                        *)
(*                                                                         *)
(* A file is a sequence of lines, a line a sequence of fields (strings).  *)
(* Line h (0-based) gives the labels and the lines after it the rows; the *)
(* lines before it are skipped.  An empty label is named "Unnamed: j", a  *)
(* repeated one gets ".1", ".2".  An empty field is NaN; a column whose   *)
(* fields are all numbers or empty is numeric (float64 when one is empty),*)
(* any other column holds strings.  The read raises when the file has no  *)
(* line h, or when a line is wider than the header line.                  *)
(***************************************************************************)
Field(line, j) == IF j <= Len(line) THEN line[j] ELSE ""

MangleLabel(header, j) ==
    LET lab == header[j]
        before == Cardinality({i \in 1..(j - 1) : header[i] = lab})
    IN  IF lab = "" THEN "Unnamed: " \o ToString(j - 1)
        ELSE IF before > 0 THEN lab \o "." \o ToString(before)
        ELSE lab

NumericColumn(data, j) ==
    \A i \in 1..Len(data) : Field(data[i], j) = "" \/ IsNumericField(Field(data[i], j))

FloatColumn(data, j) == \E i \in 1..Len(data) : Field(data[i], j) = ""

TypedCell(data, i, j) ==
    LET s == Field(data[i], j)
    IN  IF s = "" THEN NaN
        ELSE IF NumericColumn(data, j) THEN Num(FieldToInt(s), FloatColumn(data, j))
        ELSE Str(s)

ReadRaises(lines, h) ==
    \/ h + 1 > Len(lines)
    \/ \E i \in (h + 2)..Len(lines) : Len(lines[i]) > Len(lines[h + 1])

\* the DataFrame of a read that does not raise
ReadCsv(lines, h) ==
    LET header == lines[h + 1]
        data == SubSeq(lines, h + 2, Len(lines))
    IN  [cols |-> [j \in 1..Len(header) |-> MangleLabel(header, j)],
         rows |-> [i \in 1..Len(data) |->
                     [rid |-> h + i,
                      c |-> [j \in 1..Len(header) |-> TypedCell(data, i, j)]]]]

(***************************************************************************)
(* norm_col and normalize_columns                                          *)
(***************************************************************************)
\* stands for the byte-order mark U+FEFF, which no other field contains
BOM == "^"

RECURSIVE LStripBOM(_)
LStripBOM(s) == IF StartsWith(s, BOM) THEN LStripBOM(Tail(s)) ELSE s

norm_col(x) == Strip(LStripBOM(Strip(x)))

IsSpacer(label) ==
    LET s == norm_col(label)
    IN  s = "" \/ StartsWith(Lower(s), "unnamed") \/ Strip(s) = ""

CanonicalName(label) ==
    LET low == Lower(norm_col(label))
    IN  CASE low \in {"date", "date code", "date_code"} -> "Date_Code"
          [] low \in {"county name", "county_name", "county"} -> "County_Name"
          [] low \in {"county code", "county_code"} -> "County_Code"
          [] low \in {"report month", "report_month"} -> "Report_Month"
          [] low = "month" -> "Month"
          [] low = "year" -> "Year"
          [] low = "sfy" -> "SFY"
          [] low = "ffy" -> "FFY"
          [] OTHER -> label

normalize_columns(df) ==
    LET kept == KeepCols(df, {j \in 1..Len(df.cols) : ~IsSpacer(df.cols[j])})
    IN  [kept EXCEPT !.cols = [j \in 1..Len(kept.cols) |-> CanonicalName(kept.cols[j])]]

(***************************************************************************)
(* Dates: parse_date_series and build_date                                 *)
(*                                                                         *)
(* A date is the integer yyyymmdd; 0 says that a format did not match.    *)
(***************************************************************************)
MonthAbbr == <<"JAN", "FEB", "MAR", "APR", "MAY", "JUN",
               "JUL", "AUG", "SEP", "OCT", "NOV", "DEC">>
MonthFull == <<"JANUARY", "FEBRUARY", "MARCH", "APRIL", "MAY", "JUNE", "JULY",
               "AUGUST", "SEPTEMBER", "OCTOBER", "NOVEMBER", "DECEMBER">>

\* the years a pandas Timestamp holds in full
MinYear == 1678
MaxYear == 2261

MkDate(y, m, d) == y * 10000 + m * 100 + d

IsLeap(y) == (y % 4 = 0 /\ y % 100 # 0) \/ y % 400 = 0
DaysIn(y, m) ==
    IF m = 2 THEN (IF IsLeap(y) THEN 29 ELSE 28)
    ELSE IF m \in {4, 6, 9, 11} THEN 30 ELSE 31

\* %Y: four digits
YearOf(p) ==
    IF Len(p) = 4 /\ AllDigits(p) /\ ToInt(p) \in MinYear..MaxYear THEN ToInt(p) ELSE 0
\* %m: 1[0-2]|0[1-9]|[1-9]
MonthOf(p) ==
    IF Len(p) \in {1, 2} /\ AllDigits(p) /\ ToInt(p) \in 1..12 THEN ToInt(p) ELSE 0
\* %d: 3[01]|[12]\d|0[1-9]|[1-9]
DayOf(p) ==
    IF Len(p) \in {1, 2} /\ AllDigits(p) /\ ToInt(p) \in 1..31 THEN ToInt(p) ELSE 0
\* %b, %B: a month name, in any case
NameOf(p, names) ==
    IF \E m \in 1..12 : names[m] = Upper(p)
    THEN CHOOSE m \in 1..12 : names[m] = Upper(p)
    ELSE 0
\* %y: two digits, 69..99 in the 1900s and 00..68 in the 2000s
Year2Of(p) ==
    IF Len(p) = 2 /\ AllDigits(p)
    THEN (IF ToInt(p) >= 69 THEN 1900 + ToInt(p) ELSE 2000 + ToInt(p))
    ELSE 0

Date3(y, m, d) ==
    IF y > 0 /\ m > 0 /\ d > 0 /\ d <= DaysIn(y, m) THEN MkDate(y, m, d) ELSE 0

RECURSIVE Split(_, _)
\* s.split(sep), sep one character
Split(s, sep) ==
    IF \E i \in 1..Len(s) : CharAt(s, i) = sep
    THEN LET i == Min({j \in 1..Len(s) : CharAt(s, j) = sep})
         IN  <<SubSeq(s, 1, i - 1)>> \o Split(SubSeq(s, i + 1, Len(s)), sep)
    ELSE <<s>>

\* format "%b%y": JUL15
ParseMonYY(s) ==
    IF Len(s) = 5
    THEN Date3(Year2Of(SubSeq(s, 4, 5)), NameOf(SubSeq(s, 1, 3), MonthAbbr), 1)
    ELSE 0

\* format "%Y%m": 201507
ParseYYYYMM(s) ==
    IF Len(s) \in {5, 6}
    THEN Date3(YearOf(SubSeq(s, 1, 4)), MonthOf(SubSeq(s, 5, Len(s))), 1)
    ELSE 0

\* the formats "%Y-%m", "%Y-%m-%d", "%m/%Y", "%m/%d/%Y", "%b %Y", "%B %Y"
ParseFormat(s, fmt) ==
    LET dash == Split(s, "-")
        slash == Split(s, "/")
        space == Split(s, " ")
    IN  CASE fmt = "%Y-%m" ->
               IF Len(dash) = 2 THEN Date3(YearOf(dash[1]), MonthOf(dash[2]), 1) ELSE 0
          [] fmt = "%Y-%m-%d" ->
               IF Len(dash) = 3
               THEN Date3(YearOf(dash[1]), MonthOf(dash[2]), DayOf(dash[3]))
               ELSE 0
          [] fmt = "%m/%Y" ->
               IF Len(slash) = 2 THEN Date3(YearOf(slash[2]), MonthOf(slash[1]), 1) ELSE 0
          [] fmt = "%m/%d/%Y" ->
               IF Len(slash) = 3
               THEN Date3(YearOf(slash[3]), MonthOf(slash[1]), DayOf(slash[2]))
               ELSE 0
          [] fmt = "%b %Y" ->
               IF Len(space) = 2
               THEN Date3(YearOf(space[2]), NameOf(space[1], MonthAbbr), 1)
               ELSE 0
          [] fmt = "%B %Y" ->
               IF Len(space) = 2
               THEN Date3(YearOf(space[2]), NameOf(space[1], MonthFull), 1)
               ELSE 0

OtherFormats == <<"%Y-%m", "%Y-%m-%d", "%m/%Y", "%m/%d/%Y", "%b %Y", "%B %Y">>

\* pd.to_datetime(s, errors="coerce") with no format.  Every field of the model
\* that no format above matches is a word, "*" or "nan", which this parser
\* refuses as well.
ParseGeneric(s) == 0

\* Series.astype(str) of one cell, in a column that holds a missing value as NaN
AsTypeStr(c) ==
    CASE c.k = "str" -> c.s
      [] c.k = "num" -> ToString(c.n) \o (IF c.f THEN ".0" ELSE "")
      [] c.k = "date" -> ToString(c.n)
      [] OTHER -> "nan"

\* s.str.replace(r"\.0$", "", regex=True)
StripDotZero(s) == IF EndsWith(s, ".0") THEN SubSeq(s, 1, Len(s) - 2) ELSE s

\* a coercion that makes a zero of what is no number
to_numeric_zero(c) ==
    CASE c.k = "num" -> c
      [] c.k = "str" -> IF IsNumericField(c.s) THEN Num(FieldToInt(c.s), TRUE) ELSE Num(0, TRUE)
      [] OTHER -> NaN

\* pd.to_numeric(s, errors="coerce") of one cell
to_numeric(c) ==
    CASE c.k = "num" -> c
      [] c.k = "str" -> IF IsNumericField(c.s) THEN Num(FieldToInt(c.s), TRUE) ELSE NaN
      [] OTHER -> NaN

RECURSIVE FirstFormat(_, _)
FirstFormat(s, fmts) ==
    IF Len(fmts) = 0 THEN 0
    ELSE LET d == ParseFormat(s, Head(fmts))
         IN  IF d > 0 THEN d ELSE FirstFormat(s, Tail(fmts))

\* parse_date_series, for one element of the series: every step of it fills
\* the elements that are still NaT, one by one
parse_date(c) ==
    LET s == StripDotZero(Strip(AsTypeStr(c)))
        num == to_numeric(Str(s))
        monyy == ParseMonYY(Upper(s))
        yyyymm == IF NotNa(num) /\ num.n >= 0 THEN ParseYYYYMM(ToString(num.n)) ELSE 0
        other == FirstFormat(s, OtherFormats)
        d == IF monyy > 0 THEN monyy
             ELSE IF yyyymm > 0 THEN yyyymm
             ELSE IF other > 0 THEN other
             ELSE ParseGeneric(s)
    IN  IF d > 0 THEN Stamp(d) ELSE NaN

parse_date_series(df, name) == [i \in 1..Len(df.rows) |-> parse_date(Cell(df, df.rows[i], name))]

AnyNotNa(series) == \E i \in 1..Len(series) : NotNa(series[i])
AllNaT(df) == [i \in 1..Len(df.rows) |-> NaN]

\* the Month and Year branch of build_date, for one row
MonthYearDate(month, year) ==
    LET m == to_numeric(month)
        y == to_numeric(year)
    IN  IF NotNa(m) /\ NotNa(y) /\ y.n \in MinYear..MaxYear /\ m.n \in 1..12
        THEN Stamp(MkDate(y.n, m.n, 1))
        ELSE NaN

\* df[name] is a DataFrame, not a Series, when two columns carry the label: the
\* Series methods used on it (.str, pd.to_numeric) then raise
Ambiguous(df, name) == ColCount(df, name) > 1

\* parse_date_series(df[name]) when df has the column, and no date otherwise
DatesOf(df, name) == IF HasCol(df, name) THEN parse_date_series(df, name) ELSE AllNaT(df)

\* build_date(df): raises says that it raises, and dates is the Series it
\* returns when it does not
build_date(df) ==
    LET code == DatesOf(df, "Date_Code")
        report == DatesOf(df, "Report_Month")
        both == HasCol(df, "Month") /\ HasCol(df, "Year")
    IN  IF HasCol(df, "Date_Code") /\ Ambiguous(df, "Date_Code")
        THEN [raises |-> TRUE, dates |-> AllNaT(df)]
        ELSE IF AnyNotNa(code)
        THEN [raises |-> FALSE, dates |-> code]
        ELSE IF HasCol(df, "Report_Month") /\ Ambiguous(df, "Report_Month")
        THEN [raises |-> TRUE, dates |-> AllNaT(df)]
        ELSE IF AnyNotNa(report)
        THEN [raises |-> FALSE, dates |-> report]
        ELSE IF both /\ (Ambiguous(df, "Month") \/ Ambiguous(df, "Year"))
        THEN [raises |-> TRUE, dates |-> AllNaT(df)]
        ELSE IF both
        THEN [raises |-> FALSE,
              dates |-> [i \in 1..Len(df.rows) |->
                           MonthYearDate(Cell(df, df.rows[i], "Month"),
                                         Cell(df, df.rows[i], "Year"))]]
        ELSE [raises |-> FALSE, dates |-> AllNaT(df)]

(***************************************************************************)
(* Metrics: METRICS_IN_ORDER and map_metric_columns                        *)
(***************************************************************************)
METRICS_IN_ORDER == <<
    "A. Adjustment",
    "A. 1. Cases brought forward",
    "A. 2. Cases added during month",
    "A. 3. Total cases available",
    "A. 4. Cases discontinued",
    "A. 5. Cases carried forward",
    "B. 6. Total General Relief Cases",
    "B. 6a. Total Family Cases",
    "B. 6b. Total One-person Cases",
    "B. 6. Total General Relief Persons",
    "B. 6a. Total Family Case Persons",
    "B. 6b. Total One-person Case Persons",
    "B. 6. Total GR Expenditure (Dollars)",
    "B. 6(1). GR Expenditure in Cash",
    "B. 6(2). GR Expenditure in Kind",
    "B. 6a. Total Family Expenditure (Dollars)",
    "B. 6b. Total One-person Expenditure (Dollars)",
    "C. 7. Cases added during month",
    "C. 8. Total SSA checks disposed of",
    "C. 8a. Total SSA disposed in 1-10 days",
    "C. 9. SSA sent SSI/SSP check directly to receipient",
    "C. 10. Denial notice received",
    "D. 11. Reimbursements Cases",
    "D. 11a. SSA check received Cases",
    "D. 11b. Repaid by recipient Cases",
    "D. 11. Amount reimbursed",
    "D. 11a. Amount received in SSA check",
    "D. 11b. Amount repaid by recipient",
    "E. Net General Relief Expenditure" >>

\* the number n of a label that matches ^(?:Cell\s*)?(\d+)$ without regard to
\* case, and -1 for a label that does not match
MetricNumber(label) ==
    LET s == norm_col(label)
        rest == IF StartsWith(Lower(s), "cell") THEN LStrip(SubSeq(s, 5, Len(s))) ELSE s
    IN  IF AllDigits(rest) THEN ToInt(rest) ELSE 0 - 1

\* rename[c] of map_metric_columns; a label with no entry is kept
MetricRename(label) ==
    LET n == MetricNumber(label)
    IN  IF 1 <= n /\ n <= Len(METRICS_IN_ORDER) THEN METRICS_IN_ORDER[n] ELSE label

map_metric_columns(df) ==
    [df EXCEPT !.cols = [j \in 1..Len(df.cols) |-> MetricRename(df.cols[j])]]

\* [m for m in METRICS_IN_ORDER if m in df.columns]
MetricCols(df) ==
    SelectIdx(METRICS_IN_ORDER,
              {n \in 1..Len(METRICS_IN_ORDER) : HasCol(df, METRICS_IN_ORDER[n])}, 1)

(***************************************************************************)
(* read_gr_csv                                                             *)
(***************************************************************************)
DefaultHeader == 4
HeaderScanEnd == 51

Log(fname, msg, n) == [file |-> fname, msg |-> msg, n |-> n]

\* the test of the first read, on the labels normalize_columns leaves
HasIdColumns(df) ==
    HasCol(df, "County_Name") /\ (HasCol(df, "Date_Code") \/ HasCol(df, "Report_Month"))

\* the test of the fallback reads, on the joined lower-case labels
LooksLikeHeader(df) ==
    LET cols == Join([j \in 1..Len(df.cols) |-> Lower(norm_col(df.cols[j]))])
    IN  Contains(cols, "county")
        /\ (Contains(cols, "date") \/ Contains(cols, "report month")
            \/ Contains(cols, "report_month"))

\* the header rows the fallback loop would accept
FallbackRows(lines) ==
    {h \in 0..(HeaderScanEnd - 1) :
        ~ReadRaises(lines, h) /\ LooksLikeHeader(normalize_columns(ReadCsv(lines, h)))}

\* read_gr_csv(path, logs): found is FALSE for None; log holds the entries it
\* appends to logs, h the header row it settled on
read_gr_csv(fname, lines) ==
    LET first == IF ReadRaises(lines, DefaultHeader) THEN EmptyDF
                 ELSE normalize_columns(ReadCsv(lines, DefaultHeader))
        failed == IF ReadRaises(lines, DefaultHeader)
                  THEN <<Log(fname, "header=4 failed", DefaultHeader)>>
                  ELSE <<>>
    IN  IF ~ReadRaises(lines, DefaultHeader) /\ HasIdColumns(first)
        THEN [found |-> TRUE, df |-> first, h |-> DefaultHeader,
              log |-> <<Log(fname, "read with header=4", DefaultHeader)>>]
        ELSE IF FallbackRows(lines) # {}
        THEN LET h == Min(FallbackRows(lines))
             IN  [found |-> TRUE, df |-> normalize_columns(ReadCsv(lines, h)), h |-> h,
                  log |-> Append(failed, Log(fname, "read with header=h (fallback)", h))]
        ELSE [found |-> FALSE, df |-> EmptyDF, h |-> 0,
              log |-> Append(failed, Log(fname, "could not find usable header row", 0))]

(***************************************************************************)
(* The steps of load_all's loop body, as functions of the DataFrame        *)
(***************************************************************************)
\* df["County_Name"].astype(str).str.strip() of one cell.  keepsNA is the
\* pandas build's treatment of a missing value by astype(str): pandas 3 keeps
\* it missing (TRUE), pandas 1 and 2 make it the string "nan" (FALSE)
CountyStr(c, keepsNA) == IF IsNa(c) /\ keepsNA THEN NaN ELSE Str(Strip(AsTypeStr(c)))

\* lines 367-372: the rows that the three county filters keep
CountyKept(c) == NotNa(c) /\ c.s # "Statewide" /\ HasLetter(c.s)

clean_county(df, keepsNA) ==
    LET named == SetCol(df, "County_Name",
                        [i \in 1..Len(df.rows) |->
                            CountyStr(Cell(df, df.rows[i], "County_Name"), keepsNA)])
    IN  FilterRows(named, {i \in 1..Len(named.rows) :
                              CountyKept(Cell(named, named.rows[i], "County_Name"))})

\* lines 378-379: df["Date"] = dates, then dropna(subset=["Date"])
with_dates(df, dates) ==
    LET dated == SetCol(df, "Date", dates)
    IN  FilterRows(dated, {i \in 1..Len(dated.rows) :
                              NotNa(Cell(dated, dated.rows[i], "Date"))})

MonthTitle == <<"Jan", "Feb", "Mar", "Apr", "May", "Jun",
                "Jul", "Aug", "Sep", "Oct", "Nov", "Dec">>

\* Timestamp.strftime("%b %Y")
StrfMonthYear(d) == Str(MonthTitle[(d.n \div 100) % 100] \o " " \o ToString(d.n \div 10000))

\* lines 385-386
with_report_month(df) ==
    IF HasCol(df, "Report_Month") THEN df
    ELSE SetCol(df, "Report_Month",
                [i \in 1..Len(df.rows) |-> StrfMonthYear(Cell(df, df.rows[i], "Date"))])

\* lines 400-401: df[c] = pd.to_numeric(df[c], errors="coerce") for each metric
coerce_metrics(df, cols) ==
    [df EXCEPT !.rows =
        [i \in 1..Len(df.rows) |->
            [df.rows[i] EXCEPT !.c =
                [j \in 1..Len(df.cols) |->
                    IF df.cols[j] \in Range(cols) THEN to_numeric(df.rows[i].c[j])
                    ELSE df.rows[i].c[j]]]]]

\* a loop body that keeps the rows whose metrics are all absent
keep_all_rows(df, cols) == df

\* line 403: dropna(subset=metric_cols, how="all")
drop_all_absent(df, cols) ==
    FilterRows(df, {i \in 1..Len(df.rows) :
                      \E k \in 1..Len(cols) : NotNa(Cell(df, df.rows[i], cols[k]))})

\* one row of pd.melt's result: the id_vars, the metric and its value.  file
\* and rid name the source of the record (see DataFrames); Value is read only
\* of a record whose cell is a number
LongRecord(df, row, metric, fname) ==
    [Date |-> Cell(df, row, "Date").n,
     Report_Month |-> Cell(df, row, "Report_Month"),
     County_Name |-> Cell(df, row, "County_Name").s,
     County_Code |-> IF HasCol(df, "County_Code") THEN Cell(df, row, "County_Code") ELSE NaN,
     Metric |-> metric,
     Value |-> Cell(df, row, metric),
     file |-> fname,
     rid |-> row.rid]

\* lines 413-419: pd.melt(...).dropna(subset=["Value"]), metric by metric and
\* row by row
melt(df, cols, fname) ==
    LET all == Flatten([k \in 1..Len(cols) |->
                          [i \in 1..Len(df.rows) |-> LongRecord(df, df.rows[i], cols[k], fname)]])
    IN  SelectIdx(all, {i \in 1..Len(all) : NotNa(all[i].Value)}, 1)

(***************************************************************************)
(* The Combiner: lines 429-433                                             *)
(***************************************************************************)
RECURSIVE OrdersOf(_, _)
\* every arrangement of the records of seq at the positions S that ascends by
\* Date
OrdersOf(seq, S) ==
    IF S = {} THEN {<<>>}
    ELSE UNION {{<<seq[i]>> \o rest : rest \in OrdersOf(seq, S \ {i})} :
                  i \in {j \in S : \A k \in S : seq[j].Date <= seq[k].Date}}

\* a Combiner that does not sort
keep_order(seq) == {seq}

\* combined.sort_values("Date"): the default kind is "quicksort", which pandas
\* documents as not stable, so records of one date may come out in any order
sort_values(seq) == OrdersOf(seq, 1..Len(seq))

\* a Combiner that takes two records for duplicates only when their values agree too
drop_duplicates_with_value(seq) ==
    SelectIdx(seq, {i \in 1..Len(seq) :
                      ~\E j \in 1..(i - 1) :
                          /\ seq[j].Date = seq[i].Date
                          /\ seq[j].County_Name = seq[i].County_Name
                          /\ seq[j].Metric = seq[i].Metric
                          /\ seq[j].Value = seq[i].Value}, 1)

SameKey(a, b) ==
    a.Date = b.Date /\ a.County_Name = b.County_Name /\ a.Metric = b.Metric

\* drop_duplicates(subset=["Date", "County_Name", "Metric"], keep="first")
drop_duplicates(seq) ==
    SelectIdx(seq, {i \in 1..Len(seq) : ~\E j \in 1..(i - 1) : SameKey(seq[j], seq[i])}, 1)

(***************************************************************************)
(* The files of the model                                                  *)
(*                                                                         *)
(* resolve_path finds a file or not; a file that is found is its lines.   *)
(* The files below are the inputs the model draws from: each shows one    *)
(* path of load_all, and their dates, counties and metrics overlap.       *)
(***************************************************************************)
Title == <<"GR 237 General Relief">>

Preamble(n) == [k \in 1..n |-> Title]

CsvFile(pre, header, rows) == [exists |-> TRUE, lines |-> Preamble(pre) \o <<header>> \o rows]

\* not in BASE_DIR nor in BASE_DIR/data
FileMissing == [exists |-> FALSE, lines |-> <<>>]
\* two title lines and nothing else
FileNoHeader == [exists |-> TRUE, lines |-> Preamble(2)]
\* a header row and no data row
FileHeaderOnly == CsvFile(4, <<"Date", "County", "1">>, <<>>)
\* a county code and no county name: only the fallback read accepts it
FileNoCountyName ==
    CsvFile(0, <<"Date", "County Code", "1">>, << <<"Jul15", "01", "5">> >>)
\* nothing but aggregate and footnote rows
FileNoCounties ==
    CsvFile(4, <<"Date", "County", "1">>,
            << <<"Jul15", "Statewide", "50">>, <<"Jul15", "2015", "7">> >>)
FileNoDates ==
    CsvFile(0, <<"Report Month", "County", "1">>, << <<"Total", "Alameda", "5">> >>)
FileNoMetrics ==
    CsvFile(4, <<"Date", "County", "Notes">>, << <<"Jul15", "Alameda", "revised">> >>)
\* every count redacted
FileAllRedacted ==
    CsvFile(4, <<"Date", "County", "1", "2">>, << <<"Jul15", "Alameda", "*", "*">> >>)
\* "County" and "County Name" both become County_Name
FileTwoCountyColumns ==
    CsvFile(4, <<"Date", "County", "County Name", "1">>,
            << <<"Jul15", "Alameda", "Alameda", "5">> >>)
\* the usual layout; the second row has one count redacted
FileA ==
    CsvFile(4, <<"Date", "County", "1", "2">>,
            << <<"Jul15", "Alameda", "10", "20">>, <<"Aug15", "Kern", "*", "7">> >>)
\* no preamble, other labels, rows not in date order; its first row is about
\* the same month, county and metric as FileA's first
FileB ==
    CsvFile(0, <<"^Report Month", " COUNTY NAME ", "Cell 1">>,
            << <<"Jul 2015", "Alameda", "15">>, <<"2015-06", "Kern", "4">> >>)
\* rows with no county name, the aggregate label, a padded county name and no
\* date; an unlabelled spacer column
FileFootnotes ==
    CsvFile(4, <<"Date", "County", "", "2">>,
            << <<"201507", "", "", "3">>, <<"201507", " Statewide", "", "99">>,
               <<"201507", " Kern ", "", "8">>, <<"", "Alameda", "", "4">> >>)
\* two date columns: the first row's disagree, the second row has only a
\* report month
FileTwoDates ==
    CsvFile(4, <<"Date", "Report Month", "County", "3">>,
            << <<"Jul15", "Aug 2015", "Alameda", "30">>, <<"", "Sep 2015", "Kern", "5">> >>)
\* a date column that parses in no row, and a report month
FileReportMonthOnly ==
    CsvFile(4, <<"Date", "Report Month", "County", "3">>,
            << <<"FY15", "07/2015", "Alameda", "31">> >>)
\* neither date column parses; month and year columns
FileMonthYear ==
    CsvFile(4, <<"Date", "Month", "Year", "County", "County Code", "3">>,
            << <<"FY15", "9", "2015", "Kern", "15", "6">>,
               <<"FY15", "13", "2015", "Kern", "15", "6">> >>)
\* "1" and "Cell 1" both become the first metric
FileTwoMetricColumns ==
    CsvFile(4, <<"Date", "County", "1", "Cell 1">>, << <<"Jul15", "Alameda", "5", "5">> >>)
\* the header line twice, at rows 0 and 4, as in two exports put end to end
FileHeaderTwice ==
    CsvFile(0, <<"Date", "County", "1">>,
            << <<"Jul18", "Alameda", "1">>, <<"Aug18", "Alameda", "2">>,
               <<"Sep18", "Alameda", "3">>, <<"Date", "County", "1">>,
               <<"Oct18", "Kern", "9">> >>)
\* a title line, padded to the width of the table, that mentions county and
\* date; the header line is at row 1
FileTitleNamesColumns ==
    CsvFile(0, <<"County summary, report date July 2018", "", "">>,
            << <<"Date", "County", "1">>, <<"Nov18", "Kern", "6">> >>)
\* numbered from the Adjustment: A3 = A1 + A2 + Adjustment holds when column n
\* is metric n (2 + 10 + 20 = 32), and not when column n is metric n + 1
FileFromAdjustment ==
    CsvFile(4, <<"Date", "County", "1", "2", "3", "4">>,
            << <<"Jul16", "Alameda", "2", "10", "20", "32">> >>)
\* numbered from "Cases brought forward": A3 = A1 + A2 holds when column n is
\* metric n + 1 (5 + 7 = 12), and not when column n is metric n
FileFromCasesBroughtForward ==
    CsvFile(4, <<"Date", "County", "1", "2", "3", "4">>,
            << <<"Jul17", "Alameda", "5", "7", "12", "3">> >>)

Catalogue ==
    <<FileMissing, FileNoHeader, FileHeaderOnly, FileNoCountyName, FileNoCounties,
      FileNoDates, FileNoMetrics, FileAllRedacted, FileTwoCountyColumns, FileA, FileB,
      FileFootnotes, FileTwoDates, FileReportMonthOnly, FileMonthYear,
      FileTwoMetricColumns, FileHeaderTwice, FileTitleNamesColumns,
      FileFromAdjustment, FileFromCasesBroughtForward>>

\* the most files in the list given to load_all
MaxFiles == 2

\* the lists of files, as positions in Catalogue: GR_FILE_NAMES names each file
\* once
FileLists ==
    UNION {{fl \in [1..n -> 1..Len(Catalogue)] : \A a, b \in 1..n : a # b => fl[a] # fl[b]} :
             n \in 1..MaxFiles}

(***************************************************************************)
(* load_all(files) as a state machine                                      *)
(*                                                                         *)
(* One action per step of the loop body, taken for the files in order,    *)
(* then Combine.  A file's name is its position in the list.              *)
(***************************************************************************)
VARIABLES
    files,        \* the files of the list, in order
    keepsNA,      \* the pandas build in use (see CountyStr)
    cur,          \* the position of the file the loop is at
    pc,           \* the step load_all is at
    df,           \* the DataFrame of the file the loop is at
    metric_cols,  \* metric_cols of the file the loop is at
    frames,       \* frames: the long tables of the files processed so far
    logs,         \* logs
    combined,     \* the table load_all returns
    stages        \* for each file, the stages of the pipeline it has been through

vars == <<files, keepsNA, cur, pc, df, metric_cols, frames, logs, combined, stages>>

Init ==
    /\ \E fl \in FileLists : files = [i \in 1..Len(fl) |-> Catalogue[fl[i]]]
    /\ keepsNA \in BOOLEAN
    /\ cur = 1
    /\ pc = "resolve"
    /\ df = EmptyDF
    /\ metric_cols = <<>>
    /\ frames = <<>>
    /\ logs = <<>>
    /\ combined = <<>>
    /\ stages = [i \in 1..Len(files) |-> <<>>]

Reached(names) == stages' = [stages EXCEPT ![cur] = @ \o names]

\* `continue`, or the end of the loop body: on to the next file, or out of the loop
NextFile ==
    /\ cur' = cur + 1
    /\ pc' = IF cur = Len(files) THEN "combine" ELSE "resolve"

\* the file leaves the pipeline: the entries are logged and the loop continues
Exclude(entries) ==
    /\ logs' = logs \o entries
    /\ Reached(<<"Excluded">>)
    /\ NextFile

\* an exception leaves load_all: nothing is returned
Raise ==
    /\ pc' = "raised"
    /\ UNCHANGED <<cur, df, metric_cols, logs, stages>>

\* lines 352-355 without the `continue`: a missing file is logged and read all the same
ResolveWithoutContinue ==
    /\ pc = "resolve"
    /\ IF ~files[cur].exists
       THEN /\ logs' = Append(logs, Log(cur, "missing (put next to app.py or in ./data/)", 0))
            /\ Reached(<<"Excluded">>)
       ELSE /\ Reached(<<"Discovered">>)
            /\ UNCHANGED logs
    /\ pc' = "read"
    /\ UNCHANGED <<files, keepsNA, cur, df, metric_cols, frames, combined>>

\* lines 352-355
Resolve ==
    /\ pc = "resolve"
    /\ IF ~files[cur].exists
       THEN Exclude(<<Log(cur, "missing (put next to app.py or in ./data/)", 0)>>)
       ELSE /\ pc' = "read"
            /\ Reached(<<"Discovered">>)
            /\ UNCHANGED <<cur, logs>>
    /\ UNCHANGED <<files, keepsNA, df, metric_cols, frames, combined>>

\* lines 357-364; None is the empty DataFrame here
Read ==
    /\ pc = "read"
    /\ \E r \in {read_gr_csv(cur, files[cur].lines)} :
           /\ df' = r.df
           /\ IF ~r.found
              THEN Exclude(r.log)
              ELSE IF IsEmpty(r.df)
              THEN /\ logs' = logs \o r.log
                   /\ Reached(<<"HeaderLocated", "ColumnsNormalized", "Excluded">>)
                   /\ NextFile
              ELSE IF ~HasCol(r.df, "County_Name")
              THEN /\ logs' = logs \o r.log \o <<Log(cur, "missing County_Name after read", 0)>>
                   /\ Reached(<<"HeaderLocated", "ColumnsNormalized", "Excluded">>)
                   /\ NextFile
              ELSE /\ logs' = logs \o r.log
                   /\ Reached(<<"HeaderLocated", "ColumnsNormalized">>)
                   /\ pc' = "county"
                   /\ UNCHANGED cur
    /\ UNCHANGED <<files, keepsNA, metric_cols, frames, combined>>

\* lines 366-375
FilterCounties ==
    /\ pc = "county"
    /\ IF Ambiguous(df, "County_Name")
       THEN Raise
       ELSE \E cleaned \in {clean_county(df, keepsNA)} :
                /\ df' = cleaned
                /\ UNCHANGED metric_cols
                /\ IF IsEmpty(cleaned)
                   THEN Exclude(<<Log(cur, "empty after county filtering", 0)>>)
                   ELSE /\ pc' = "date"
                        /\ Reached(<<"RowsFiltered">>)
                        /\ UNCHANGED <<cur, logs>>
    /\ UNCHANGED <<files, keepsNA, frames, combined>>

\* lines 377-386
ResolveDates ==
    /\ pc = "date"
    /\ \E built \in {build_date(df)} :
           IF built.raises
           THEN Raise
           ELSE \E dated \in {with_dates(df, built.dates)} :
                    /\ UNCHANGED metric_cols
                    /\ IF IsEmpty(dated)
                       THEN /\ df' = dated
                            /\ Exclude(<<Log(cur, "no parsable dates", 0)>>)
                       ELSE /\ df' = with_report_month(dated)
                            /\ pc' = "map"
                            /\ Reached(<<"DatesResolved">>)
                            /\ UNCHANGED <<cur, logs>>
    /\ UNCHANGED <<files, keepsNA, frames, combined>>

\* lines 388-397
MapMetrics ==
    /\ pc = "map"
    /\ \E mapped \in {map_metric_columns(df)} :
       \E found \in {MetricCols(mapped)} :
           /\ df' = mapped
           /\ metric_cols' = found
           /\ IF Len(found) = 0
              THEN Exclude(<<Log(cur, "Columns before mapping", Len(df.cols)),
                             Log(cur, "no metric columns recognized (expected 1..29 or Cell 1..29)", 0)>>)
              ELSE /\ logs' = Append(logs, Log(cur, "Columns before mapping", Len(df.cols)))
                   /\ pc' = "coerce"
                   /\ Reached(<<"MetricsMapped">>)
                   /\ UNCHANGED cur
    /\ UNCHANGED <<files, keepsNA, frames, combined>>

\* lines 399-406
Coerce ==
    /\ pc = "coerce"
    /\ IF \E k \in 1..Len(metric_cols) : Ambiguous(df, metric_cols[k])
       THEN Raise
       ELSE \E coerced \in {coerce_metrics(df, metric_cols)} :
            \E kept \in {drop_all_absent(coerced, metric_cols)} :
                /\ df' = kept
                /\ UNCHANGED metric_cols
                /\ IF IsEmpty(kept)
                   THEN Exclude(<<Log(cur, "all metric values empty after numeric coercion", 0)>>)
                   ELSE /\ pc' = "melt"
                        /\ Reached(<<"RowsFiltered">>)
                        /\ UNCHANGED <<cur, logs>>
    /\ UNCHANGED <<files, keepsNA, frames, combined>>

\* lines 408-424
Melt ==
    /\ pc = "melt"
    /\ \E df_long \in {melt(df, metric_cols, cur)} :
           /\ frames' = Append(frames, df_long)
           /\ logs' = Append(logs, Log(cur, "long_rows", Len(df_long)))
    /\ Reached(<<"Reshaped", "Merged">>)
    /\ NextFile
    /\ UNCHANGED <<files, keepsNA, df, metric_cols, combined>>

\* lines 426-434
Combine ==
    /\ pc = "combine"
    /\ IF Len(frames) = 0
       THEN combined' = <<>>
       ELSE \E sorted \in sort_values(Flatten(frames)) : combined' = drop_duplicates(sorted)
    /\ pc' = "done"
    /\ UNCHANGED <<files, keepsNA, cur, df, metric_cols, frames, logs, stages>>

(***************************************************************************)
(* The page: lines 437-613                                                 *)
(*                                                                         *)
(* pc goes on from "done" to what the page shows.  The user's choices are *)
(* a date range between two dates of the data (between them the slider    *)
(* selects no other record) and any counties and metrics of the data.     *)
(***************************************************************************)
\* lines 510-518: the records of the date range, counties and metrics chosen
filtered_view(data, lo, hi, selected_counties, selected_metrics) ==
    SelectIdx(data, {i \in 1..Len(data) :
                       /\ lo <= data[i].Date /\ data[i].Date <= hi
                       /\ data[i].County_Name \in selected_counties
                       /\ data[i].Metric \in selected_metrics
                       /\ NotNa(data[i].Value)}, 1)

\* lines 474-522: what the page can show of data, by the user's choices
Shown(data) ==
    {shown \in {"no_data_for_filters", "charts"} :
        \E lo, hi \in {data[i].Date : i \in 1..Len(data)} :
        \E selected_counties \in SUBSET {data[i].County_Name : i \in 1..Len(data)} :
        \E selected_metrics \in SUBSET {data[i].Metric : i \in 1..Len(data)} :
            /\ lo <= hi
            /\ (shown = "no_data_for_filters") <=>
                   (Len(filtered_view(data, lo, hi, selected_counties, selected_metrics)) = 0)}

\* lines 446-522: st.error and st.stop when nothing was loaded, st.warning and
\* st.stop when the filters leave nothing, the charts otherwise
Render ==
    /\ pc = "done"
    /\ IF Len(combined) = 0
       THEN pc' = "no_data_loaded"
       ELSE \E shown \in Shown(combined) : pc' = shown
    /\ UNCHANGED <<files, keepsNA, cur, df, metric_cols, frames, logs, combined, stages>>

\* lines 610-612: an exception that left load_all is shown as a crash
Crash ==
    /\ pc = "raised"
    /\ pc' = "crashed"
    /\ UNCHANGED <<files, keepsNA, cur, df, metric_cols, frames, logs, combined, stages>>

Next ==
    \/ Resolve
    \/ Read
    \/ FilterCounties
    \/ ResolveDates
    \/ MapMetrics
    \/ Coerce
    \/ Melt
    \/ Combine
    \/ Render
    \/ Crash

Spec == Init /\ [][Next]_vars


(***************************************************************************)
(* Properties                                                              *)
(*                                                                         *)
(* The properties read the source of a record in the text of its file:    *)
(* record r comes from line r.rid of file r.file.                         *)
(***************************************************************************)
Last(s) == s[Len(s)]
Front(s) == SubSeq(s, 1, Len(s) - 1)
IsPrefix(s, t) == Len(s) <= Len(t) /\ s = SubSeq(t, 1, Len(s))

\* the header line that read_gr_csv settles on for file f
HeaderLine(f) == files[f].lines[read_gr_csv(f, files[f].lines).h + 1]

\* the field of a line in the column that becomes County_Name, header being
\* the header line of its file
SourceCounty(header, line) ==
    Field(line, CHOOSE j \in 1..Len(header) :
                    CanonicalName(MangleLabel(header, j)) = "County_Name")

\* the field of a line in the column that is mapped to metric
SourceField(header, line, metric) ==
    Field(line, CHOOSE j \in 1..Len(header) :
                    MetricRename(MangleLabel(header, j)) = metric)

\* the loop has just appended the long table of file cur - 1 to frames: df and
\* metric_cols are still that file's
JustMelted ==
    /\ pc \in {"resolve", "combine"}
    /\ cur > 1
    /\ Len(stages[cur - 1]) > 0
    /\ Last(stages[cur - 1]) = "Merged"

\* C1: for every list of files, the combined table that load_all returns holds
\* no two records with the same Date, County_Name and Metric
UniqueKeys ==
    pc = "done" =>
        \A i, j \in 1..Len(combined) :
            (/\ combined[i].Date = combined[j].Date
             /\ combined[i].County_Name = combined[j].County_Name
             /\ combined[i].Metric = combined[j].Metric) => i = j

\* load_all has returned a table of several records from which a duplicate was dropped
UniqueKeysWitness ==
    /\ pc = "done"
    /\ Len(combined) >= 2
    /\ Len(combined) < Len(Flatten(frames))

\* C2: the combined table that load_all returns is in non-decreasing order of
\* Date, de-duplication included
SortedByDate ==
    pc = "done" =>
        \A i, j \in 1..Len(combined) : i < j => combined[i].Date <= combined[j].Date

\* load_all has returned a table whose records were not in date order when
\* concatenated, and from which a duplicate was dropped
SortedByDateWitness ==
    /\ pc = "done"
    /\ Len(combined) >= 2
    /\ Len(combined) < Len(Flatten(frames))
    /\ \E i, j \in 1..Len(Flatten(frames)) :
           i < j /\ Flatten(frames)[i].Date > Flatten(frames)[j].Date

\* C3: when several files produce a record for the same Date, County_Name and
\* Metric, the record of the combined table is the one of the file that comes
\* first in the list
FirstFileKept ==
    pc = "done" =>
        \A i \in 1..Len(combined) : \A k \in 1..Len(frames) : \A j \in 1..Len(frames[k]) :
            SameKey(combined[i], frames[k][j]) => combined[i].file <= frames[k][j].file

\* C4: no file's failure aborts load_all: it returns, and the table it returns
\* has a record for every key of every file that was processed
NoFileAbortsLoad ==
    /\ pc # "raised"
    /\ pc = "done" =>
           \A k \in 1..Len(frames) : \A j \in 1..Len(frames[k]) :
               \E i \in 1..Len(combined) : SameKey(combined[i], frames[k][j])

\* the messages of logs that state why a file was excluded
ExclusionReasons ==
    {"missing (put next to app.py or in ./data/)",
     "could not find usable header row",
     "missing County_Name after read",
     "empty after county filtering",
     "no parsable dates",
     "no metric columns recognized (expected 1..29 or Cell 1..29)",
     "all metric values empty after numeric coercion"}

\* C5: every file that the loop has excluded has an entry of logs that names
\* it and states the reason, whichever exit of the loop body it took
EveryExclusionLogged ==
    \A f \in 1..Len(files) :
        (Len(stages[f]) > 0 /\ Last(stages[f]) = "Excluded") =>
            \E k \in 1..Len(logs) : logs[k].file = f /\ logs[k].msg \in ExclusionReasons

\* C6: a row that survives the filters yields, for each of the file's metrics,
\* exactly one record when its field is a number and none otherwise; every
\* record comes from such a row, and its Value is that number
RecordIffNumber ==
    /\ JustMelted =>
           LET long == Last(frames)
               lines == files[cur - 1].lines
               header == HeaderLine(cur - 1)
           IN  /\ \A i \in 1..Len(df.rows) : \A k \in 1..Len(metric_cols) :
                      Cardinality({r \in 1..Len(long) :
                                      /\ long[r].rid = df.rows[i].rid
                                      /\ long[r].Metric = metric_cols[k]})
                        = IF IsNumericField(SourceField(header, lines[df.rows[i].rid + 1],
                                                        metric_cols[k]))
                          THEN 1 ELSE 0
               /\ \A r \in 1..Len(long) :
                      /\ \E i \in 1..Len(df.rows) : df.rows[i].rid = long[r].rid
                      /\ long[r].Value.k = "num"
                      /\ long[r].Value.n =
                             FieldToInt(SourceField(header, lines[long[r].rid + 1], long[r].Metric))
    /\ pc = "done" => \A i \in 1..Len(combined) : combined[i].Value.k = "num"

\* a row with a redacted count and a number has just been reshaped: it has a
\* record for the number and none for the redacted count
RecordIffNumberWitness ==
    /\ JustMelted
    /\ \E i \in 1..Len(df.rows) : \E k, l \in 1..Len(metric_cols) :
           /\ SourceField(HeaderLine(cur - 1), files[cur - 1].lines[df.rows[i].rid + 1],
                          metric_cols[k]) = "*"
           /\ IsNumericField(SourceField(HeaderLine(cur - 1),
                                         files[cur - 1].lines[df.rows[i].rid + 1],
                                         metric_cols[l]))
           /\ \E r \in 1..Len(Last(frames)) :
                  /\ Last(frames)[r].rid = df.rows[i].rid
                  /\ Last(frames)[r].Metric = metric_cols[l]
           /\ ~\E r \in 1..Len(Last(frames)) :
                  /\ Last(frames)[r].rid = df.rows[i].rid
                  /\ Last(frames)[r].Metric = metric_cols[k]

\* C7: no record of the combined table comes from a line whose county field is
\* empty, is "Statewide" or has no letter, and none is named "Statewide"
NoRecordWithoutCounty ==
    pc = "done" =>
        \A f \in 1..Len(files) :
            \A i \in {r \in 1..Len(combined) : combined[r].file = f} :
                LET county == SourceCounty(HeaderLine(f), files[f].lines[combined[i].rid + 1])
                IN  /\ county # ""
                    /\ county # "Statewide"
                    /\ HasLetter(county)
                    /\ combined[i].County_Name # "Statewide"

\* the date of one row by the precedence of its own sources: Date_Code, then
\* Report_Month, then Month and Year
RowDate(d, row) ==
    LET code == IF HasCol(d, "Date_Code") THEN parse_date(Cell(d, row, "Date_Code")) ELSE NaN
        report == IF HasCol(d, "Report_Month") THEN parse_date(Cell(d, row, "Report_Month")) ELSE NaN
        both == IF HasCol(d, "Month") /\ HasCol(d, "Year")
                THEN MonthYearDate(Cell(d, row, "Month"), Cell(d, row, "Year")) ELSE NaN
    IN  IF NotNa(code) THEN code ELSE IF NotNa(report) THEN report ELSE both

\* C8: the date resolver gives each row the date of the first of its own
\* sources that parses, and drops a row only when none of them parses
RowDateByPrecedence ==
    [][(pc = "date" /\ pc' # "raised") =>
          \A i \in 1..Len(df.rows) :
              IF IsNa(RowDate(df, df.rows[i]))
              THEN ~\E j \in 1..Len(df'.rows) : df'.rows[j].rid = df.rows[i].rid
              ELSE \E j \in 1..Len(df'.rows) :
                       /\ df'.rows[j].rid = df.rows[i].rid
                       /\ Cell(df', df'.rows[j], "Date") = RowDate(df, df.rows[i])]_vars

\* the offsets between a column's number and its metric's place in
\* METRICS_IN_ORDER: 0 when column 1 is the Adjustment, 1 when column 1 is
\* "Cases brought forward"
Offsets == {0, 1}

\* the number in row under the column numbered n
HasNumbered(d, row, n) ==
    \E j \in 1..Len(d.cols) : MetricNumber(d.cols[j]) = n /\ NotNa(to_numeric(row.c[j]))
Numbered(d, row, n) ==
    to_numeric(row.c[CHOOSE j \in 1..Len(d.cols) :
                         MetricNumber(d.cols[j]) = n /\ NotNa(to_numeric(row.c[j]))]).n

\* A3 = A1 + A2 (+ Adjustment) within 2, the metrics being where offset o puts them
Balances(d, row, o) ==
    /\ \A n \in 2..4 : HasNumbered(d, row, n - o)
    /\ LET adjustment == IF HasNumbered(d, row, 1 - o) THEN Numbered(d, row, 1 - o) ELSE 0
           diff == Numbered(d, row, 4 - o)
                     - (Numbered(d, row, 2 - o) + Numbered(d, row, 3 - o) + adjustment)
       IN  0 - 2 <= diff /\ diff <= 2

IdentityScore(d, o) == Cardinality({i \in 1..Len(d.rows) : Balances(d, d.rows[i], o)})

\* the label of a column when the column numbered n is metric n + o
RenameAt(label, o) ==
    LET n == MetricNumber(label)
    IN  IF 1 <= n /\ n + o <= Len(METRICS_IN_ORDER) THEN METRICS_IN_ORDER[n + o] ELSE label

\* C9: when one offset balances A3 = A1 + A2 (+ Adjustment) on more rows than
\* the other, the mapper names the numbered columns by that offset
OffsetByIdentityScore ==
    [][pc = "map" =>
          \A o \in Offsets :
              (\A p \in Offsets \ {o} : IdentityScore(df, o) > IdentityScore(df, p)) =>
                  df'.cols = [j \in 1..Len(df.cols) |-> RenameAt(df.cols[j], o)]]_vars

\* the stages in the order the specification gives, and in the order of the
\* loop body, which filters the rows by county before it resolves the dates and
\* by metric values after it maps the metrics
StagesInOrder ==
    <<"Discovered", "HeaderLocated", "ColumnsNormalized", "DatesResolved",
      "MetricsMapped", "RowsFiltered", "Reshaped", "Merged">>
StagesOfLoopBody ==
    <<"Discovered", "HeaderLocated", "ColumnsNormalized", "RowsFiltered", "DatesResolved",
      "MetricsMapped", "RowsFiltered", "Reshaped", "Merged">>

\* the stages s are the first stages of order, or the first stages short of
\* the last followed by Excluded
Follows(s, order) ==
    \/ IsPrefix(s, order)
    \/ /\ Len(s) > 0
       /\ Last(s) = "Excluded"
       /\ Len(s) <= Len(order)
       /\ IsPrefix(Front(s), order)

ReadMessages == {"read with header=4", "read with header=h (fallback)"}

\* what the labels of a line offer a header locator: the identifier columns
\* they name, and "Numbered" when five or more of them are positive integers
HeaderSignals(line) ==
    ({CanonicalName(line[j]) : j \in 1..Len(line)}
        \cap {"County_Name", "County_Code", "Date_Code", "Report_Month",
              "Month", "Year", "SFY", "FFY"})
    \cup (IF Cardinality({j \in 1..Len(line) :
                            AllDigits(norm_col(line[j])) /\ ToInt(norm_col(line[j])) > 0}) >= 5
          THEN {"Numbered"} ELSE {})

\* a region signal and a date signal
CarriesBoth(signals) ==
    /\ signals \cap {"County_Name", "County_Code"} # {}
    /\ signals \cap {"Date_Code", "Report_Month", "Month", "Year"} # {}

\* C11: the header row chosen for a file carries a region signal and a date
\* signal, and no other row that carries both scores higher or scores the same
\* at a lower index.  Whatever the weights of the score, a row that offers all
\* the signals of another scores at least as much: so no earlier candidate
\* offers all the signals of the chosen row, and no later one offers them and more
HeaderBestOfCandidates ==
    \A k \in 1..Len(logs) :
        logs[k].msg \in ReadMessages =>
            LET lines == files[logs[k].file].lines
                chosen == HeaderSignals(lines[logs[k].n + 1])
            IN  /\ CarriesBoth(chosen)
                /\ \A h \in 0..(Len(lines) - 1) :
                       LET other == HeaderSignals(lines[h + 1])
                       IN  CarriesBoth(other) =>
                               /\ h < logs[k].n => ~(chosen \subseteq other)
                               /\ h > logs[k].n => ~(chosen \subseteq other /\ chosen # other)


\* load_all has returned
Returned == pc \in {"done", "no_data_loaded", "no_data_for_filters", "charts"}

Excluded(f) == Len(stages[f]) > 0 /\ Last(stages[f]) = "Excluded"

\* C12 as stated: every file that is not excluded has a record in the combined
\* table, so the table is empty exactly when every file was excluded; "No data
\* loaded" is shown exactly then, and "No data for the selected filters" only
\* after a load that is not empty
EveryMergedFileInCombined ==
    /\ Returned =>
           /\ \A f \in 1..Len(files) :
                  ~Excluded(f) => \E i \in 1..Len(combined) : combined[i].file = f
           /\ (Len(combined) = 0) <=> \A f \in 1..Len(files) : Excluded(f)
    /\ pc = "no_data_loaded" => Len(combined) = 0
    /\ pc \in {"no_data_for_filters", "charts"} => Len(combined) > 0

\* C12: every file that is not excluded appends a record to the tables that
\* are combined (de-duplication may drop it for another file's record of the
\* same key), so when load_all returns, the table is empty exactly when every
\* file was excluded; "No data loaded" is shown exactly then, and "No data for
\* the selected filters" only after a load that is not empty
EmptyIffAllExcluded ==
    /\ Returned =>
           /\ \A f \in 1..Len(files) :
                  ~Excluded(f) =>
                      \E k \in 1..Len(frames) : \E j \in 1..Len(frames[k]) :
                          /\ frames[k][j].file = f
                          /\ \E i \in 1..Len(combined) : SameKey(combined[i], frames[k][j])
           /\ (Len(combined) = 0) <=> \A f \in 1..Len(files) : Excluded(f)
    /\ pc = "no_data_loaded" => Len(combined) = 0
    /\ pc \in {"no_data_for_filters", "charts"} => Len(combined) > 0

\* "No data loaded" is shown after two files were excluded at different stages
EmptyIffAllExcludedWitness ==
    /\ pc = "no_data_loaded"
    /\ Len(files) >= 2
    /\ Excluded(1) /\ Excluded(2)
    /\ stages[1] # stages[2]

====
